---- MODULE Spec2Model ----
(***************************************************************************)
(* Payment routes of the travel-booking backend                            *)
(* (src/Backend/router/PaymentRouter.js): the PayHere notification         *)
(* handler and the PayPal capture handler, each cut at its await points,   *)
(* run by concurrent handler instances over one Payment collection; and    *)
(* the routes that only read the collection or relay to a processor        *)
(* (/csrf-token, /check-order-status, /initiate/payhere and the            *)
(* checkout-session routes, the Stripe one from src/unnamed/part_001).     *)
(* Requests are those that have passed the csrf and rate-limit middleware. *)
(*                                                                         *)
(* Conventions.  A request field that the code only tests for truthiness   *)
(* and then uses as a string is a TLA+ string, "" standing for an absent   *)
(* or empty (falsy) field.  status_code is a JavaScript value (string or   *)
(* number), because the code compares it loosely with numbers.  MD5 is     *)
(* modelled as a collision-free function that keeps its preimage.          *)
(*                                                                         *)
(* The ledger.  findOne and save are single events of the database; each   *)
(* may be rejected, and a rejected save stores nothing.  save validates    *)
(* the document against PaymentSchema first (a NaN amount is rejected).    *)
(* A document is stored with the customer value the handler gave it, as   *)
(* far as PaymentSchema declares its paths; created_at is the time the     *)
(* document was built.                                                      *)
(*                                                                         *)
(* Specifications.  Spec: concurrent notifications and captures.  SpecSeq  *)
(* and SpecStored: all routes, one request at a time, from an empty ledger *)
(* and from one that holds an earlier payment.  SpecRetry: the processor   *)
(* posts a notification again after every non-2xx answer, under fairness. *)
(* SpecFront: onPayPalApprove of the RightCard component                   *)
(* (src/frontend/src/Pages/CardDeatil.jsx/RightCard.jsx) run against the   *)
(* capture handler.                                                        *)
(***************************************************************************)
EXTENDS Integers, Sequences, FiniteSets, TLC

(* ------------------------------ bounds -------------------------------- *)

\* number of handler instances that can be in flight at once
NumProcs == 2
\* number of requests served in one behaviour
MaxRequests == 2

Procs == 1..NumProcs

(* ------------------------- JavaScript values -------------------------- *)

\* the value of a property that is not there
undefined == "undefined"

Str(s) == [k |-> "str", s |-> s, n |-> 0]
Num(n) == [k |-> "num", s |-> "", n |-> n]

\* a property the body does not carry, and the number n + 0.5
Undef == [k |-> "undef", s |-> "", n |-> 0]
Half(n) == [k |-> "half", s |-> "", n |-> n]

\* !v is false
Truthy(v) ==
  CASE v.k = "str" -> v.s # ""
    [] v.k = "undef" -> FALSE
    [] v.k = "half" -> TRUE
    [] OTHER -> v.n # 0

\* `${v}`
ToStr(v) ==
  IF v.k = "str" THEN v.s
  ELSE CASE v.n = 0 -> "0" [] v.n = 2 -> "2" [] v.n = -1 -> "-1"
         [] v.n = -2 -> "-2" [] OTHER -> "99"

\* Number(s), for the strings of the model; -100 stands for NaN
StrToNum(s) ==
  CASE s = "2" -> 2 [] s = "2.0" -> 2 [] s = "0" -> 0 [] s = "-1" -> -1
    [] s = "-2" -> -2 [] s = "99" -> 99 [] s = "2599" -> 2599 [] OTHER -> 0 - 100

\* v == n, n a number
LooseEq(v, n) == IF v.k = "num" THEN v.n = n ELSE v.s # "" /\ StrToNum(v.s) = n

\* a JavaScript number in hundredths, or NaN
Number(c) == [nan |-> FALSE, c |-> c]
NaN == [nan |-> TRUE, c |-> 0]

\* parseFloat(s), for the amount strings of the model
ParseFloat(s) ==
  CASE s = "10.00" -> Number(1000)
    [] s = "10" -> Number(1000)
    [] s = "25.99" -> Number(2599)
    [] OTHER -> NaN

\* Number.isInteger(v): a number without a fraction
IsInteger(v) == v.k = "num"

\* v <= 0 for a number v
NotPositive(v) == IF v.k = "half" THEN v.n < 0 ELSE v.n <= 0

\* a JavaScript number in thousandths, or NaN
Milli(t) == [nan |-> FALSE, t |-> t]
MilliNaN == [nan |-> TRUE, t |-> 0]

\* v / 100, v any value of a body: a string is converted with Number(v),
\* undefined gives NaN
Div100(v) ==
  CASE v.k = "num" -> Milli(10 * v.n)
    [] v.k = "half" -> Milli(10 * v.n + 5)
    [] v.k = "str" -> IF v.s = "" THEN Milli(0)
                      ELSE IF StrToNum(v.s) = 0 - 100 THEN MilliNaN
                      ELSE Milli(10 * StrToNum(v.s))
    [] OTHER -> MilliNaN

DigitChars == <<"0", "1", "2", "3", "4", "5", "6", "7", "8", "9">>

\* the decimal digits of n >= 0, most significant first
RECURSIVE DigitSeq(_)
DigitSeq(n) ==
  IF n < 10 THEN <<DigitChars[n + 1]>>
  ELSE Append(DigitSeq(n \div 10), DigitChars[(n % 10) + 1])

\* the characters of cs as one string
RECURSIVE Join(_)
Join(cs) == IF cs = <<>> THEN "" ELSE Head(cs) \o Join(Tail(cs))

\* mutant: toFixed without the zeros that fill a short digit string
ToFixed2Unpadded(x) ==
  IF x.nan THEN "NaN"
  ELSE LET a == IF x.t < 0 THEN 0 - x.t ELSE x.t
           n == (a + 5) \div 10
           m == DigitSeq(n)
           k == Len(m)
       IN (IF x.t < 0 THEN "-" ELSE "")
          \o (IF k > 2 THEN Join(SubSeq(m, 1, k - 2)) ELSE "0") \o "."
          \o (IF k > 2 THEN Join(SubSeq(m, k - 1, k)) ELSE Join(m))

\* x.toFixed(2) (Number.prototype.toFixed): n is the integer with n / 100
\* nearest to x, the larger one of two; its digits are filled with zeros to
\* three and the point is put before the last two.  The halves of the model
\* are binary fractions (0.125), so that the rule for two nearest n applies.
ToFixed2(x) ==
  IF x.nan THEN "NaN"
  ELSE LET a == IF x.t < 0 THEN 0 - x.t ELSE x.t
           n == (a + 5) \div 10
           d == DigitSeq(n)
           m == IF Len(d) <= 2 THEN SubSeq(<<"0", "0", "0">>, 1, 3 - Len(d)) \o d ELSE d
           k == Len(m)
       IN (IF x.t < 0 THEN "-" ELSE "")
          \o Join(SubSeq(m, 1, k - 2)) \o "." \o Join(SubSeq(m, k - 1, k))

\* parseFloat(amount).toFixed(2), line 112
FormatAmount(amount) ==
  LET f == ParseFloat(amount) IN ToFixed2(IF f.nan THEN MilliNaN ELSE Milli(10 * f.c))

(* --------------------------- sanitize --------------------------------- *)

\* sanitizeHtml with no allowed tags: the text without its tags
StripTags(s) ==
  CASE s = "<b>Ann</b>" -> "Ann"
    [] s = "<i>Ella</i>" -> "Ella"
    [] s = "Silva & Co" -> "Silva &amp; Co"   \* text comes out entity-escaped
    [] OTHER -> s

sanitize(input) == IF input = undefined THEN input ELSE StripTags(input)

(* --------------------------- customer --------------------------------- *)

CustomerFields ==
  {"first_name", "last_name", "email", "phone", "address", "city", "country",
   "delivery_address", "delivery_city", "delivery_country", "tripName"}

\* {}: an object none of whose properties is set
EmptyObject == [k |-> "obj", f |-> [x \in CustomerFields |-> undefined]]
JsNull == [k |-> "null", f |-> [x \in CustomerFields |-> undefined]]
JsNumber == [k |-> "num", f |-> [x \in CustomerFields |-> undefined]]
Obj(f) == [k |-> "obj", f |-> f]

\* the custom_1 strings of the model
CustomGood == "{\"first_name\":\"<b>Ann</b>\",\"email\":\"a@x.lk\",\"tripName\":\"Ella\"}"
CustomBroken == "{\"first_name\":"
CustomNull == "null"
CustomNumber == "7"

\* the property names of custom_1 in the order of lines 153-165
CustomKeys ==
  <<"first_name", "last_name", "email", "phone", "address", "city", "country",
    "delivery_address", "delivery_city", "delivery_country", "tripName">>

\* JSON.stringify(o) for an object o of strings: the properties that are set,
\* in the order they were written
RECURSIVE StringifyFrom(_, _, _)
StringifyFrom(f, i, first) ==
  IF i > Len(CustomKeys) THEN ""
  ELSE IF f[CustomKeys[i]] = undefined THEN StringifyFrom(f, i + 1, first)
  ELSE (IF first THEN "" ELSE ",")
       \o "\"" \o CustomKeys[i] \o "\":\"" \o f[CustomKeys[i]] \o "\""
       \o StringifyFrom(f, i + 1, FALSE)

JsonStringify(o) == "{" \o StringifyFrom(o.f, 1, TRUE) \o "}"

\* the customer properties a body of the model carries, and the text each one
\* carries after sanitize
SentFields == {"first_name", "last_name", "email", "phone", "delivery_city", "tripName"}
SentValue(x) ==
  CASE x = "first_name" -> "Ann"
    [] x = "last_name" -> "Silva &amp; Co"
    [] x = "email" -> "a@x.lk"
    [] x = "phone" -> "0771234567"
    [] x = "delivery_city" -> "Kandy"
    [] x = "tripName" -> "Ella"
    [] OTHER -> undefined

\* the objects of strings whose JSON text a notification of the model may carry
JsonObjects ==
  {Obj([x \in CustomerFields |-> IF x \in S THEN SentValue(x) ELSE undefined]) :
     S \in SUBSET SentFields}

\* each of these objects with its JSON text
JsonTexts == {<<JsonStringify(o), o>> : o \in JsonObjects}

\* JSON.parse(text): ok is FALSE when it throws a SyntaxError
JsonParse(text) ==
  CASE text = CustomGood ->
         [ok |-> TRUE,
          v |-> Obj([x \in CustomerFields |->
                       CASE x = "first_name" -> "<b>Ann</b>"
                         [] x = "email" -> "a@x.lk"
                         [] x = "tripName" -> "Ella"
                         [] OTHER -> undefined])]
    [] text = CustomNull -> [ok |-> TRUE, v |-> JsNull]
    [] text = CustomNumber -> [ok |-> TRUE, v |-> JsNumber]
    [] \E e \in JsonTexts : e[1] = text ->
         [ok |-> TRUE, v |-> (CHOOSE e \in JsonTexts : e[1] = text)[2]]
    [] OTHER -> [ok |-> FALSE, v |-> EmptyObject]

\* the object literal of lines 244-256 / 369-378: every listed property
\* sanitized, the others not set
SanitizedCustomer(v, fields) ==
  Obj([x \in CustomerFields |-> IF x \in fields THEN sanitize(v.f[x]) ELSE undefined])

\* the value of `customer` after lines 240-260
ParseCustomer(custom_1) ==
  IF custom_1 = "" THEN EmptyObject
  ELSE LET r == JsonParse(custom_1) IN
       IF ~r.ok THEN EmptyObject          \* JSON.parse threw: customer is still {}
       ELSE IF r.v.k = "null" THEN r.v    \* customer = null, then null.first_name threw
       ELSE SanitizedCustomer(r.v, CustomerFields)

(* --------------------------- signature -------------------------------- *)

\* crypto.createHash('md5').update(s).digest('hex').toUpperCase()
Md5Upper(s) == "MD5[" \o s \o "]"
\* the same digest in lower case, as digest('hex') gives it
Md5Lower(s) == "md5[" \o s \o "]"

\* localSignature of lines 215-221
LocalSignature(b, secret) ==
  Md5Upper(b.merchant_id \o b.order_id \o b.payhere_amount \o b.payhere_currency
           \o ToStr(b.status_code) \o Md5Upper(secret))

\* mutant: the required-field test left out
InitiateMissingNever(b) == FALSE

\* the required-field test of lines 90-101; b is the body of /initiate/payhere
InitiateMissing(b) ==
  \/ b.merchant_id = ""
  \/ b.order_id = ""
  \/ b.amount = ""
  \/ b.currency = ""
  \/ b.items = ""
  \/ b.return_url = ""
  \/ b.cancel_url = ""
  \/ b.notify_url = ""
  \/ b.first_name = ""
  \/ b.email = ""

\* mutant: the hash with the status code of a paid order in it
InitiateHashWithStatus(b, secret) ==
  Md5Upper(sanitize(b.merchant_id) \o sanitize(b.order_id) \o FormatAmount(b.amount)
           \o sanitize(b.currency) \o "2" \o Md5Upper(secret))

\* hash of lines 140-142
InitiateHash(b, secret) ==
  Md5Upper(sanitize(b.merchant_id) \o sanitize(b.order_id) \o FormatAmount(b.amount)
           \o sanitize(b.currency) \o Md5Upper(secret))

\* mutant: custom_1 without the trip name
InitiateCustomNoTrip(b) ==
  JsonStringify(Obj([x \in CustomerFields |->
                       IF x = "tripName" THEN undefined ELSE sanitize(b[x])]))

\* custom_1 of lines 153-165; the optional properties the body does not
\* carry stay undefined and JSON.stringify leaves them out
InitiateCustom(b) ==
  JsonStringify(Obj([x \in CustomerFields |->
                       IF x = "tripName" THEN sanitize(b.items) ELSE sanitize(b[x])]))

\* mutant: the required-field test left out
MissingNever(b) == FALSE

\* mutant: custom_1 taken for a required field
MissingWithCustom(b) ==
  \/ b.merchant_id = "" \/ b.order_id = "" \/ b.payment_id = ""
  \/ b.payhere_amount = "" \/ b.payhere_currency = ""
  \/ ~Truthy(b.status_code) \/ b.md5sig = "" \/ b.custom_1 = ""

\* the required-field test of lines 197-205
Missing(b) ==
  \/ b.merchant_id = ""
  \/ b.order_id = ""
  \/ b.payment_id = ""
  \/ b.payhere_amount = ""
  \/ b.payhere_currency = ""
  \/ ~Truthy(b.status_code)
  \/ b.md5sig = ""

\* mutant: the comparison of line 235 left out
SignatureMismatchNever(b, secret) == FALSE

\* localSignature !== md5sig, line 235
SignatureMismatch(b, secret) == LocalSignature(b, secret) # b.md5sig

\* mutant: a pending payment taken for a paid one
StatusOfPendingSuccess(status_code) ==
  IF LooseEq(status_code, 2) \/ LooseEq(status_code, 0) THEN "success"
  ELSE IF LooseEq(status_code, -1) THEN "cancelled"
  ELSE IF LooseEq(status_code, -2) THEN "failed"
  ELSE "unknown"

\* the value given to `status` by the chain of lines 262-295
StatusOf(status_code) ==
  IF LooseEq(status_code, 2) THEN "success"
  ELSE IF LooseEq(status_code, 0) THEN "pending"
  ELSE IF LooseEq(status_code, -1) THEN "cancelled"
  ELSE IF LooseEq(status_code, -2) THEN "failed"
  ELSE "unknown"

(* ------------------------- requests (inputs) --------------------------- *)

OrderIds == {"o1", "o2"}

\* the merchant secret PayHere signs with
ProcessorSecret == "s3cret"

StatusCodes == {Str("2"), Str("0"), Str("-1"), Str("-2"), Str("99"), Num(0), Num(2)}

\* md5sig as PayHere computes it for a notification
ProcessorSignature(b) ==
  Md5Upper(b.merchant_id \o b.order_id \o b.payhere_amount \o b.payhere_currency
           \o ToStr(b.status_code) \o Md5Upper(ProcessorSecret))

Signed(b) == [b EXCEPT !.md5sig = ProcessorSignature(b)]

\* a complete status-code-2 notification for order o, not yet signed
BaseBody(o) ==
  [merchant_id |-> "1221", order_id |-> o, payment_id |-> "p1",
   payhere_amount |-> "10.00", payhere_currency |-> "LKR",
   status_code |-> Str("2"), md5sig |-> "", custom_1 |-> CustomGood]

\* the hash of the PayHere checkout form for the order of notification b, which
\* the browser holds after /initiate/payhere
CheckoutHash(b) ==
  Md5Upper(b.merchant_id \o b.order_id \o b.payhere_amount \o b.payhere_currency
           \o Md5Upper(ProcessorSecret))

\* signatures a sender without the secret can put in md5sig: a made-up one, the
\* hash of the checkout form, the lower-case digest, and the signature of the
\* same order under another status
OtherSignatures(b) ==
  {"BAD", CheckoutHash(b), Md5Lower(b.merchant_id \o b.order_id \o b.payhere_amount
                   \o b.payhere_currency \o ToStr(b.status_code)
                   \o Md5Upper(ProcessorSecret)),
   ProcessorSignature([b EXCEPT !.status_code =
                         IF ToStr(b.status_code) = "2" THEN Str("0") ELSE Str("2")])}

NotifyFieldNames ==
  {"merchant_id", "order_id", "payment_id", "payhere_amount", "payhere_currency",
   "status_code", "md5sig"}

Without(b, name) ==
  IF name = "status_code" THEN [b EXCEPT !.status_code = Str("")]
  ELSE [b EXCEPT ![name] = ""]

\* a complete body of POST /initiate/payhere for order o and amount a; the
\* optional properties (last_name, phone, ...) are not sent
InitiateBase(o, a) ==
  [merchant_id |-> "1221", order_id |-> o, amount |-> a, currency |-> "LKR",
   items |-> "<i>Ella</i>", return_url |-> "https://shop/return",
   cancel_url |-> "https://shop/cancel", notify_url |-> "https://shop/notify",
   first_name |-> "<b>Ann</b>", email |-> "a@x.lk",
   last_name |-> undefined, phone |-> undefined, address |-> undefined,
   city |-> undefined, country |-> undefined, delivery_address |-> undefined,
   delivery_city |-> undefined, delivery_country |-> undefined]

\* a body for order o that also carries optional properties
InitiateFull(o) ==
  [InitiateBase(o, "10.00") EXCEPT !.last_name = "Silva & Co",
                                   !.phone = "0771234567", !.delivery_city = "Kandy"]

\* the complete bodies of POST /initiate/payhere whose amount is a number
CompleteInitiateBodies == {InitiateBase("o2", "10.00"), InitiateFull("o1")}

\* the notifications of the sequential specification; those of byInitiate carry
\* in custom_1 the text /initiate/payhere returned for the order
NotifyBodies ==
  LET signedByStatus ==
        {Signed([BaseBody(o) EXCEPT !.status_code = sc]) : o \in OrderIds, sc \in StatusCodes}
      byCustom ==
        {Signed([BaseBody("o1") EXCEPT !.custom_1 = c]) :
           c \in {"", CustomBroken, CustomNull, CustomNumber}}
      byPayment ==
        {Signed([BaseBody("o1") EXCEPT !.payment_id = "p2", !.payhere_amount = a]) :
           a \in {"25.99", "ten"}}
      badlySigned ==
        UNION {{[b EXCEPT !.md5sig = sig] : sig \in OtherSignatures(b)} : b \in signedByStatus}
      incomplete ==
        {Without(Signed(BaseBody(o)), name) : o \in OrderIds, name \in NotifyFieldNames}
      byInitiate ==
        {Signed([BaseBody(ib.order_id) EXCEPT !.custom_1 = InitiateCustom(ib)]) :
           ib \in CompleteInitiateBodies}
  IN signedByStatus \cup byCustom \cup byPayment \cup badlySigned \cup incomplete
     \cup byInitiate

\* the notifications of the concurrent specification
ConcurrentNotifyBodies ==
  {Signed(BaseBody(o)) : o \in OrderIds} \cup {Signed([BaseBody("o1") EXCEPT !.status_code = Str("0")])}

JsUndefined == [k |-> "undef", f |-> [x \in CustomerFields |-> undefined]]

BodyCustomer ==
  Obj([x \in CustomerFields |->
         CASE x = "first_name" -> "<b>Ann</b>" [] x = "email" -> "a@x.lk" [] OTHER -> undefined])

\* the bodies of POST /capture-paypal-payment; amount is left out: it is read only
\* in the fallback of lines 385 and 432, which the check before it makes unreachable
CaptureBodies ==
  [orderId : {"o1"}, tripName : {undefined, "<i>Ella</i>"}, customer : {JsUndefined, BodyCustomer}]
  \cup {[orderId |-> "o2", tripName |-> "<i>Ella</i>", customer |-> BodyCustomer]}

ConcurrentCaptureBodies ==
  [orderId : OrderIds, tripName : {"<i>Ella</i>"}, customer : {JsUndefined}]

\* purchase_units[0].amount of a processor response
AmountObjs ==
  {[present |-> FALSE, currency_code |-> "", value |-> ""],
   [present |-> TRUE, currency_code |-> "", value |-> "10.00"],
   [present |-> TRUE, currency_code |-> "USD", value |-> ""],
   [present |-> TRUE, currency_code |-> "USD", value |-> "10.00"]}

\* results of OrdersGetRequest and of OrdersAuthorizeRequest
OrderResponses == [status : {"APPROVED", "COMPLETED", "CREATED"}, amount : AmountObjs]
AuthResponses == [status : {"COMPLETED", "CREATED"}, amount : AmountObjs]

\* the processor results of the concurrent specification
ConcurrentOrderResponses ==
  {r \in OrderResponses : r.status # "APPROVED" /\ r.amount.present /\ r.amount.currency_code # ""}
ConcurrentAuthResponses ==
  {r \in AuthResponses : r.status = "COMPLETED" /\ r.amount.present /\ r.amount.currency_code # ""}

InitiateFieldNames ==
  {"merchant_id", "order_id", "amount", "currency", "items", "return_url",
   "cancel_url", "notify_url", "first_name", "email"}

\* the bodies of POST /initiate/payhere: complete ones, with an amount of no,
\* two or no usable decimals, and ones that lack a required field
InitiateBodies ==
  {InitiateBase(o, a) : o \in OrderIds, a \in {"10", "10.00", "ten"}}
  \cup {InitiateFull("o1")}
  \cup {[InitiateBase("o1", "10.00") EXCEPT ![name] = ""] : name \in InitiateFieldNames}

\* the :tripName of GET /check-order-status/:tripName
TripNames == {"Ella", "<i>Ella</i>", "Kandy"}

\* a complete body of a checkout-session request: 25.99 in cents
CheckoutBase ==
  [tripName |-> "<i>Ella</i>", amount |-> Num(2599), quantity |-> Num(1),
   successUrl |-> "https://shop/success", cancelUrl |-> "https://shop/cancel"]

\* amounts a body can carry: whole cents, nothing, zero, a negative number, a
\* string, and 12.5
CheckoutAmounts ==
  {Num(2599), Num(1000), Num(100), Num(5), Undef, Num(0), Num(0 - 100), Str("2599"), Half(12)}

\* the bodies of POST /create-checkout-session/paypal and /stripe
CheckoutBodies ==
  {[CheckoutBase EXCEPT !.amount = a] : a \in CheckoutAmounts}
  \cup {[CheckoutBase EXCEPT !.quantity = q] : q \in {Undef, Num(0), Half(12)}}
  \cup {[CheckoutBase EXCEPT ![name] = undefined] : name \in {"tripName", "successUrl", "cancelUrl"}}

\* response.result.id of a created PayPal order, session.id of a Stripe session
SessionIds == {"cs_1"}

(* ------------------------------ state ---------------------------------- *)

VARIABLES
  ledger,          \* the Payment collection, in order of creation
  merchantSecret,  \* process.env.PAYHERE_MERCHANT_SECRET, "" when not set
  nreq,            \* requests received so far
  pc,              \* where each handler instance stands
  req,             \* its request
  loc,             \* its local variables
  resp,            \* the response it has sent
  ghost            \* what it has done: whether a findOne or save of it was
                   \* rejected, and how many calls of each kind it has made

vars == <<ledger, merchantSecret, nreq, pc, req, loc, resp, ghost>>

NoReq == [route |-> "none"]
NoLoc == [status |-> ""]
\* no document built yet, no processor result received yet
NoPayment == [rid |-> 0]
NoResult == [status |-> "", amount |-> [present |-> FALSE, currency_code |-> "", value |-> ""]]
\* the local variables of the two handlers
NotifyLocals(status, customer, payment) ==
  [status |-> status, customer |-> customer, payment |-> payment]
CaptureLocals(orderResponse, authResponse, payment) ==
  [status |-> "", orderResponse |-> orderResponse, authResponse |-> authResponse,
   payment |-> payment]
NoResp == [code |-> 0]
\* the order or session request a checkout handler has built for the processor
CheckoutLocals(value, name) ==
  [status |-> "", currency_code |-> "USD", value |-> value, name |-> name]
StripeLocals(unit_amount, name) == [status |-> "", unit_amount |-> unit_amount, name |-> name]
NoGhost ==
  [dbFailed |-> FALSE, finds |-> 0, saves |-> 0, gets |-> 0, auths |-> 0, creates |-> 0]

\* res.status(code).json({status, error, details})
Response(code, status, error, details) ==
  [code |-> code, status |-> status, error |-> error, details |-> details]

\* res.status(code).json({success, status, error, hash, custom_1}) of
\* /initiate/payhere
InitiateResponse(code, success, status, error, hash, custom_1) ==
  [code |-> code, status |-> status, error |-> error, details |-> "",
   success |-> success, hash |-> hash, custom_1 |-> custom_1]

\* res.json({ orderId }) of line 330
OrderCreated(id) ==
  [code |-> 200, status |-> "", error |-> "", details |-> "", orderId |-> id]

\* res.status(code).json({success, sessionId, error}) of the Stripe route
CheckoutResponse(code, success, id, error) ==
  [code |-> code, status |-> "", error |-> error, details |-> "",
   success |-> success, id |-> id]

Init ==
  /\ ledger = <<>>
  /\ merchantSecret \in {"", ProcessorSecret}
  /\ nreq = 0
  /\ pc = [p \in Procs |-> "idle"]
  /\ req = [p \in Procs |-> NoReq]
  /\ loc = [p \in Procs |-> NoLoc]
  /\ resp = [p \in Procs |-> NoResp]
  /\ ghost = [p \in Procs |-> NoGhost]

(* --------------------------- the ledger -------------------------------- *)

\* mutant: the existence check finds nothing
FindOneAlwaysNone(orderId, paymentType) == FALSE

\* mutant: the existence check looks among the PayHere documents only
FindOnePayHere(orderId, paymentType) ==
  \E i \in 1..Len(ledger) :
     ledger[i].order_id = orderId /\ ledger[i].paymentType = "PayHere"

\* mutant: the existence check without the payment type
FindOneAnyType(orderId, paymentType) ==
  \E i \in 1..Len(ledger) : ledger[i].order_id = orderId

\* Payment.findOne({ order_id, paymentType }): is there such a document

FindOne(orderId, paymentType) ==
  \E i \in 1..Len(ledger) :
     ledger[i].order_id = orderId /\ ledger[i].paymentType = paymentType

\* the paths of `customer` that PaymentSchema declares, and a document keeps
CustomerPaths == CustomerFields

\* the document as the collection keeps it: of a customer object, the declared
\* paths
Kept(doc) ==
  IF doc.customer.k # "obj" THEN doc
  ELSE [doc EXCEPT !.customer =
          Obj([x \in CustomerFields |->
                 IF x \in CustomerPaths THEN doc.customer.f[x] ELSE undefined])]

\* mutant: a save that replaces the documents of the same payment type
InsertReplacing(doc) ==
  SelectSeq(ledger, LAMBDA d : d.paymentType # doc.paymentType) \o <<Kept(doc)>>

\* payment.save() of a new document: the collection with the document added
Insert(doc) == Append(ledger, Kept(doc))

\* the documents a query for (customer.tripName, paymentType) matches
Matching(tripName, paymentType) ==
  {i \in 1..Len(ledger) :
     /\ ledger[i].paymentType = paymentType
     /\ ledger[i].customer.k = "obj"
     /\ ledger[i].customer.f["tripName"] = tripName}

\* mutant: the sort in ascending order
FindOldest(tripName, paymentType) ==
  {i \in Matching(tripName, paymentType) :
     \A j \in Matching(tripName, paymentType) : ledger[j].created_at >= ledger[i].created_at}

\* Payment.findOne({ 'customer.tripName', paymentType }).sort({ created_at: -1 }),
\* line 55: the documents the query can return, those of the latest created_at
\* among the matching ones (none: the query returns null)
FindLatest(tripName, paymentType) ==
  {i \in Matching(tripName, paymentType) :
     \A j \in Matching(tripName, paymentType) : ledger[j].created_at <= ledger[i].created_at}

\* the required paths of PaymentSchema; a NaN amount is not a Number
Valid(doc) ==
  /\ doc.paymentType \in {"PayHere", "PayPal"}
  /\ doc.order_id \notin {"", undefined}
  /\ ~doc.amount.nan
  /\ doc.currency \notin {"", undefined}
  /\ doc.status \notin {"", undefined}

Send(p, r) ==
  /\ pc' = [pc EXCEPT ![p] = "done"]
  /\ resp' = [resp EXCEPT ![p] = r]

\* error.message of the errors the handlers can meet
LedgerError == "ledger operation failed"
ValidationError == "Payment validation failed"
ProcessorError == "processor call failed"
OrderAmountError == "Invalid order response: missing amount data"
AuthAmountError == "Invalid authorization response: missing amount data"

\* mutant: the 500 response without its details
CatchNoDetails(error, message) == Response(500, "", error, "")

\* the catch blocks of lines 298-301 and 446-449: details is error.message
Catch(error, message) == Response(500, "", error, message)

(* ---------------------- POST /notify/payhere --------------------------- *)

\* new Payment({...}) of lines 270-280; created_at defaults to Date.now(), which
\* is read off the count of requests received, the clock of the model
NotifyPayment(rid, b, status, customer) ==
  [rid |-> rid, created_at |-> nreq,
   paymentType |-> "PayHere", merchant_id |-> b.merchant_id,
   order_id |-> b.order_id, payment_id |-> b.payment_id,
   amount |-> ParseFloat(b.payhere_amount), currency |-> b.payhere_currency,
   status |-> status, md5sig |-> b.md5sig, customer |-> customer,
   named |-> undefined]

\* lines 183-263 and 283-297: everything the handler does before its first await.
\* It answers at once unless the status code is 2, when it issues findOne.
NotifyHandle(p, b, rid) ==
  /\ req' = [req EXCEPT ![p] = [route |-> "notify", rid |-> rid, body |-> b]]
  /\ ghost' = [ghost EXCEPT ![p] = NoGhost]
  /\ IF Missing(b)
       THEN /\ Send(p, Response(400, "", "Missing required fields", ""))
            /\ loc' = [loc EXCEPT ![p] = NoLoc]
     ELSE IF merchantSecret = ""
       THEN /\ Send(p, Response(500, "", "Merchant secret not configured", ""))
            /\ loc' = [loc EXCEPT ![p] = NoLoc]
     ELSE IF SignatureMismatch(b, merchantSecret)
       THEN /\ Send(p, Response(400, "", "Invalid signature", ""))
            /\ loc' = [loc EXCEPT ![p] = NoLoc]
     ELSE LET customer == ParseCustomer(b.custom_1)
              status == StatusOf(b.status_code)
          IN /\ loc' = [loc EXCEPT ![p] = NotifyLocals(status, customer, NoPayment)]
             /\ IF status = "success"
                  THEN /\ pc' = [pc EXCEPT ![p] = "nfind"]
                       /\ UNCHANGED resp
                  ELSE Send(p, Response(200, "notified", "", ""))
  /\ UNCHANGED <<ledger, merchantSecret>>

\* a notification arrives at a free handler instance
NotifyStart(p, b) ==
  /\ pc[p] = "idle"
  /\ nreq < MaxRequests
  /\ nreq' = nreq + 1
  /\ NotifyHandle(p, b, nreq + 1)

\* lines 265-281: findOne resolves; the handler answers already_processed or
\* builds the payment and issues save
NotifyFind(p) ==
  /\ pc[p] = "nfind"
  /\ ghost' = [ghost EXCEPT ![p].finds = @ + 1]
  /\ IF FindOne(req[p].body.order_id, "PayHere")
       THEN /\ Send(p, Response(200, "already_processed", "", ""))
            /\ UNCHANGED loc
       ELSE /\ pc' = [pc EXCEPT ![p] = "nsave"]
            /\ loc' = [loc EXCEPT ![p].payment =
                         NotifyPayment(req[p].rid, req[p].body, loc[p].status, loc[p].customer)]
            /\ UNCHANGED resp
  /\ UNCHANGED <<ledger, merchantSecret, nreq, req>>

\* findOne rejects: lines 298-301
NotifyFindFail(p) ==
  /\ pc[p] = "nfind"
  /\ ghost' = [ghost EXCEPT ![p].finds = @ + 1, ![p].dbFailed = TRUE]
  /\ Send(p, Catch("Failed to process notification", LedgerError))
  /\ UNCHANGED <<ledger, merchantSecret, nreq, req, loc>>

\* lines 281-297: save resolves (the document is stored) or rejects because the
\* document is not valid, which is a rejected ledger write like any other
NotifySave(p) ==
  /\ pc[p] = "nsave"
  /\ ghost' = [ghost EXCEPT ![p].saves = @ + 1, ![p].dbFailed = ~Valid(loc[p].payment)]
  /\ IF Valid(loc[p].payment)
       THEN /\ ledger' = Insert(loc[p].payment)
            /\ Send(p, Response(200, "notified", "", ""))
       ELSE /\ Send(p, Catch("Failed to process notification", ValidationError))
            /\ UNCHANGED ledger
  /\ UNCHANGED <<merchantSecret, nreq, req, loc>>

\* mutant: a rejected save that leaves a record without the payment's status
NotifySaveFailPartial(p) ==
  /\ pc[p] = "nsave"
  /\ ghost' = [ghost EXCEPT ![p].saves = @ + 1, ![p].dbFailed = TRUE]
  /\ Send(p, Catch("Failed to process notification", LedgerError))
  /\ ledger' = Append(ledger, [loc[p].payment EXCEPT !.status = "pending"])
  /\ UNCHANGED <<merchantSecret, nreq, req, loc>>

\* save rejects and nothing is stored: lines 298-301
NotifySaveFail(p) ==
  /\ pc[p] = "nsave"
  /\ ghost' = [ghost EXCEPT ![p].saves = @ + 1, ![p].dbFailed = TRUE]
  /\ Send(p, Catch("Failed to process notification", LedgerError))
  /\ UNCHANGED <<ledger, merchantSecret, nreq, req, loc>>

(* ------------------- POST /capture-paypal-payment ---------------------- *)

\* `customer ? {...} : {}` of lines 368-379 and 415-426
CaptureCustomer(b) ==
  IF b.customer.k = "undef" THEN EmptyObject
  ELSE LET c == SanitizedCustomer(b.customer,
                  {"first_name", "last_name", "email", "phone", "address", "city", "country"})
       IN Obj([c.f EXCEPT !["tripName"] = sanitize(b.tripName)])

\* new Payment({...}) of lines 381-389 and 428-436; result.id is the order id
CapturePayment(rid, b, r) ==
  [rid |-> rid, created_at |-> nreq,
   paymentType |-> "PayPal", merchant_id |-> undefined,
   order_id |-> b.orderId, payment_id |-> b.orderId,
   amount |-> ParseFloat(r.amount.value), currency |-> r.amount.currency_code,
   status |-> r.status, md5sig |-> undefined, customer |-> CaptureCustomer(b),
   named |-> b.tripName]      \* history: the trip the request named

\* mutant: only an APPROVED order is stored without an authorization
PaidApprovedOnly(status) == status = "APPROVED"

\* orderResponse.result.status === 'APPROVED' || ... === 'COMPLETED', line 360
Paid(status) == status \in {"APPROVED", "COMPLETED"}

\* mutant: the amount check left out
AmountMissingNever(amountObj) == FALSE

\* !amountObj || !amountObj.currency_code || !amountObj.value, lines 363 and 410
AmountMissing(amountObj) ==
  ~amountObj.present \/ amountObj.currency_code = "" \/ amountObj.value = ""

\* lines 338-344: the handler issues findOne
CaptureStart(p, b) ==
  /\ pc[p] = "idle"
  /\ nreq < MaxRequests
  /\ nreq' = nreq + 1
  /\ req' = [req EXCEPT ![p] = [route |-> "capture", rid |-> nreq + 1, body |-> b]]
  /\ ghost' = [ghost EXCEPT ![p] = NoGhost]
  /\ pc' = [pc EXCEPT ![p] = "cfind"]
  /\ loc' = [loc EXCEPT ![p] = CaptureLocals(NoResult, NoResult, NoPayment)]
  /\ UNCHANGED <<ledger, merchantSecret, resp>>

\* lines 344-356: findOne resolves; the handler answers 400 or asks the
\* processor for the order
CaptureFind(p) ==
  /\ pc[p] = "cfind"
  /\ ghost' = [ghost EXCEPT ![p].finds = @ + 1]
  /\ IF FindOne(req[p].body.orderId, "PayPal")
       THEN Send(p, Response(400, "", "Order already processed",
                              "This PayPal order has already been processed in the database."))
       ELSE /\ pc' = [pc EXCEPT ![p] = "cget"]
            /\ UNCHANGED resp
  /\ UNCHANGED <<ledger, merchantSecret, nreq, req, loc>>

\* findOne rejects: lines 446-449
CaptureFindFail(p) ==
  /\ pc[p] = "cfind"
  /\ ghost' = [ghost EXCEPT ![p].finds = @ + 1, ![p].dbFailed = TRUE]
  /\ Send(p, Catch("Failed to process PayPal payment", LedgerError))
  /\ UNCHANGED <<ledger, merchantSecret, nreq, req, loc>>

\* lines 356-390 and 401-404: the order r arrives.  APPROVED or COMPLETED: the
\* amount is checked and save is issued; otherwise the authorize call is made
CaptureGet(p, r) ==
  /\ pc[p] = "cget"
  /\ ghost' = [ghost EXCEPT ![p].gets = @ + 1]
  /\ IF Paid(r.status)
       THEN IF AmountMissing(r.amount)
              THEN /\ Send(p, Catch("Failed to process PayPal payment", OrderAmountError))
                   /\ loc' = [loc EXCEPT ![p].orderResponse = r]
              ELSE /\ pc' = [pc EXCEPT ![p] = "csaveOrder"]
                   /\ loc' = [loc EXCEPT ![p].orderResponse = r,
                                         ![p].payment = CapturePayment(req[p].rid, req[p].body, r)]
                   /\ UNCHANGED resp
       ELSE /\ pc' = [pc EXCEPT ![p] = "cauth"]
            /\ loc' = [loc EXCEPT ![p].orderResponse = r]
            /\ UNCHANGED resp
  /\ UNCHANGED <<ledger, merchantSecret, nreq, req>>

\* paypalClient.execute(orderRequest) rejects: lines 446-449
CaptureGetFail(p) ==
  /\ pc[p] = "cget"
  /\ ghost' = [ghost EXCEPT ![p].gets = @ + 1]
  /\ Send(p, Catch("Failed to process PayPal payment", ProcessorError))
  /\ UNCHANGED <<ledger, merchantSecret, nreq, req, loc>>

\* lines 404-437: the authorization r arrives; its amount is checked and save
\* is issued
CaptureAuth(p, r) ==
  /\ pc[p] = "cauth"
  /\ ghost' = [ghost EXCEPT ![p].auths = @ + 1]
  /\ IF AmountMissing(r.amount)
       THEN /\ Send(p, Catch("Failed to process PayPal payment", AuthAmountError))
            /\ loc' = [loc EXCEPT ![p].authResponse = r]
       ELSE /\ pc' = [pc EXCEPT ![p] = "csaveAuth"]
            /\ loc' = [loc EXCEPT ![p].authResponse = r,
                                  ![p].payment = CapturePayment(req[p].rid, req[p].body, r)]
            /\ UNCHANGED resp
  /\ UNCHANGED <<ledger, merchantSecret, nreq, req>>

\* paypalClient.execute(authRequest) rejects: lines 446-449
CaptureAuthFail(p) ==
  /\ pc[p] = "cauth"
  /\ ghost' = [ghost EXCEPT ![p].auths = @ + 1]
  /\ Send(p, Catch("Failed to process PayPal payment", ProcessorError))
  /\ UNCHANGED <<ledger, merchantSecret, nreq, req, loc>>

\* lines 390-398 and 437-445: save resolves, the handler answers with the
\* status of the payment
CaptureSave(p) ==
  /\ pc[p] \in {"csaveOrder", "csaveAuth"}
  /\ ghost' = [ghost EXCEPT ![p].saves = @ + 1, ![p].dbFailed = ~Valid(loc[p].payment)]
  /\ IF Valid(loc[p].payment)
       THEN /\ ledger' = Insert(loc[p].payment)
            /\ Send(p, Response(200, loc[p].payment.status, "", ""))
       ELSE /\ Send(p, Catch("Failed to process PayPal payment", ValidationError))
            /\ UNCHANGED ledger
  /\ UNCHANGED <<merchantSecret, nreq, req, loc>>

\* save rejects and nothing is stored: lines 446-449
CaptureSaveFail(p) ==
  /\ pc[p] \in {"csaveOrder", "csaveAuth"}
  /\ ghost' = [ghost EXCEPT ![p].saves = @ + 1, ![p].dbFailed = TRUE]
  /\ Send(p, Catch("Failed to process PayPal payment", LedgerError))
  /\ UNCHANGED <<ledger, merchantSecret, nreq, req, loc>>

(* --------------------------- GET /csrf-token --------------------------- *)

\* the start of a request that a handler answers before any await
Receive(p, r) ==
  /\ pc[p] = "idle"
  /\ nreq < MaxRequests
  /\ nreq' = nreq + 1
  /\ req' = [req EXCEPT ![p] = [r EXCEPT !.rid = nreq + 1]]
  /\ ghost' = [ghost EXCEPT ![p] = NoGhost]

\* lines 44-48: the handler answers with a token
CsrfToken(p) ==
  /\ Receive(p, [route |-> "csrf", rid |-> 0])
  /\ loc' = [loc EXCEPT ![p] = NoLoc]
  /\ Send(p, [code |-> 200, status |-> "", error |-> "", details |-> "",
              csrfToken |-> "token"])
  /\ UNCHANGED <<ledger, merchantSecret>>

(* ------------------ GET /check-order-status/:tripName ------------------ *)

\* lines 51-55: the handler issues the query
CheckOrderStart(p, tripName) ==
  /\ Receive(p, [route |-> "check", rid |-> 0, tripName |-> tripName])
  /\ loc' = [loc EXCEPT ![p] = NoLoc]
  /\ pc' = [pc EXCEPT ![p] = "qfind"]
  /\ UNCHANGED <<ledger, merchantSecret, resp>>

\* lines 55-60: the query resolves with a document or with null
CheckOrderFind(p) ==
  /\ pc[p] = "qfind"
  /\ ghost' = [ghost EXCEPT ![p].finds = @ + 1]
  /\ LET found == FindLatest(sanitize(req[p].tripName), "PayPal")
     IN IF found = {}
          THEN Send(p, Response(200, "NOT_FOUND", "", ""))
          ELSE \E i \in found : Send(p, Response(200, ledger[i].status, "", ""))
  /\ UNCHANGED <<ledger, merchantSecret, nreq, req, loc>>

\* the query rejects: lines 61-64
CheckOrderFindFail(p) ==
  /\ pc[p] = "qfind"
  /\ ghost' = [ghost EXCEPT ![p].finds = @ + 1, ![p].dbFailed = TRUE]
  /\ Send(p, Catch("Failed to check order status", LedgerError))
  /\ UNCHANGED <<ledger, merchantSecret, nreq, req, loc>>

(* ----------------------- POST /initiate/payhere ------------------------ *)

\* lines 67-172: the whole handler, which awaits nothing.  Nothing in it
\* throws, so that the catch block of lines 173-180 is never entered.
Initiate(p, b) ==
  /\ Receive(p, [route |-> "initiate", rid |-> 0, body |-> b])
  /\ loc' = [loc EXCEPT ![p] = NoLoc]
  /\ IF InitiateMissing(b)
       THEN Send(p, InitiateResponse(400, FALSE, "", "Missing required fields", "", ""))
     ELSE IF merchantSecret = ""
       THEN Send(p, InitiateResponse(500, FALSE, "", "PayHere merchant secret not configured",
                                     "", ""))
     ELSE Send(p, InitiateResponse(200, TRUE, "initiated", "",
                                   InitiateHash(b, merchantSecret), InitiateCustom(b)))
  /\ UNCHANGED <<ledger, merchantSecret>>

(* ----------------- POST /create-checkout-session/paypal ---------------- *)

\* lines 304-328: the order request is built from the body as it is and sent
PayPalCreateStart(p, b) ==
  /\ Receive(p, [route |-> "paypalCreate", rid |-> 0, body |-> b])
  /\ loc' = [loc EXCEPT ![p] = CheckoutLocals(ToFixed2(Div100(b.amount)), sanitize(b.tripName))]
  /\ pc' = [pc EXCEPT ![p] = "pcreate"]
  /\ UNCHANGED <<ledger, merchantSecret, resp>>

\* mutant: the handler keeps a pending payment for the order it has created
PayPalCreateStoring(p, id) ==
  /\ pc[p] = "pcreate"
  /\ ghost' = [ghost EXCEPT ![p].creates = @ + 1]
  /\ ledger' = Append(ledger,
                      [rid |-> req[p].rid, created_at |-> nreq, paymentType |-> "PayPal",
                       merchant_id |-> undefined, order_id |-> id, payment_id |-> id,
                       amount |-> NaN, currency |-> "USD", status |-> "pending",
                       md5sig |-> undefined, customer |-> EmptyObject])
  /\ Send(p, OrderCreated(id))
  /\ UNCHANGED <<merchantSecret, nreq, req, loc>>

\* lines 328-330: the processor has created the order
PayPalCreate(p, id) ==
  /\ pc[p] = "pcreate"
  /\ ghost' = [ghost EXCEPT ![p].creates = @ + 1]
  /\ Send(p, OrderCreated(id))
  /\ UNCHANGED <<ledger, merchantSecret, nreq, req, loc>>

\* the processor rejects the order request: lines 331-334
PayPalCreateFail(p) ==
  /\ pc[p] = "pcreate"
  /\ ghost' = [ghost EXCEPT ![p].creates = @ + 1]
  /\ Send(p, Catch("Failed to create PayPal order", ProcessorError))
  /\ UNCHANGED <<ledger, merchantSecret, nreq, req, loc>>

(* ----------------- POST /create-checkout-session/stripe ---------------- *)

\* the error of the validation of src/unnamed/part_001 lines 626-645, "" when
\* the body passes
StripeInvalid(b) ==
  IF \/ b.tripName \in {undefined, ""} \/ ~Truthy(b.amount) \/ ~Truthy(b.quantity)
     \/ b.successUrl \in {undefined, ""} \/ b.cancelUrl \in {undefined, ""}
    THEN "Missing required fields: tripName, amount, quantity, successUrl, cancelUrl"
  ELSE IF ~IsInteger(b.amount) \/ NotPositive(b.amount)
    THEN "Invalid amount: must be a positive integer in cents"
  ELSE IF ~IsInteger(b.quantity) \/ NotPositive(b.quantity)
    THEN "Invalid quantity: must be a positive integer"
  ELSE ""

\* src/unnamed/part_001 lines 622-648: the body is validated, then the session
\* request is sent
StripeCreateStart(p, b) ==
  /\ Receive(p, [route |-> "stripeCreate", rid |-> 0, body |-> b])
  /\ IF StripeInvalid(b) # ""
       THEN /\ Send(p, CheckoutResponse(400, FALSE, "", StripeInvalid(b)))
            /\ loc' = [loc EXCEPT ![p] = NoLoc]
       ELSE /\ pc' = [pc EXCEPT ![p] = "screate"]
            /\ loc' = [loc EXCEPT ![p] = StripeLocals(b.amount, b.tripName)]
            /\ UNCHANGED resp
  /\ UNCHANGED <<ledger, merchantSecret>>

\* src/unnamed/part_001 lines 648-675: the processor has created the session
StripeCreate(p, id) ==
  /\ pc[p] = "screate"
  /\ ghost' = [ghost EXCEPT ![p].creates = @ + 1]
  /\ Send(p, CheckoutResponse(200, TRUE, id, ""))
  /\ UNCHANGED <<ledger, merchantSecret, nreq, req, loc>>

\* the processor rejects the session request: part_001 lines 676-683
StripeCreateFail(p) ==
  /\ pc[p] = "screate"
  /\ ghost' = [ghost EXCEPT ![p].creates = @ + 1]
  /\ Send(p, Catch("Failed to create Stripe checkout session", ProcessorError))
  /\ UNCHANGED <<ledger, merchantSecret, nreq, req, loc>>

(* --------------------------- specifications ---------------------------- *)

\* the response has gone out; the handler instance is free again
Finish(p) ==
  /\ pc[p] = "done"
  /\ pc' = [pc EXCEPT ![p] = "idle"]
  /\ req' = [req EXCEPT ![p] = NoReq]
  /\ loc' = [loc EXCEPT ![p] = NoLoc]
  /\ resp' = [resp EXCEPT ![p] = NoResp]
  /\ ghost' = [ghost EXCEPT ![p] = NoGhost]
  /\ UNCHANGED <<ledger, merchantSecret, nreq>>

\* a step of a request already received
Step(p, orderResponses, authResponses) ==
  \/ NotifyFind(p)
  \/ NotifyFindFail(p)
  \/ NotifySave(p)
  \/ NotifySaveFail(p)
  \/ CaptureFind(p)
  \/ CaptureFindFail(p)
  \/ \E r \in orderResponses : CaptureGet(p, r)
  \/ CaptureGetFail(p)
  \/ \E r \in authResponses : CaptureAuth(p, r)
  \/ CaptureAuthFail(p)
  \/ CaptureSave(p)
  \/ CaptureSaveFail(p)
  \/ Finish(p)

\* requests arrive at any time and their handlers interleave at their awaits
Next ==
  \E p \in Procs :
    \/ \E b \in ConcurrentNotifyBodies : NotifyStart(p, b)
    \/ \E b \in ConcurrentCaptureBodies : CaptureStart(p, b)
    \/ Step(p, ConcurrentOrderResponses, ConcurrentAuthResponses)

\* the server runs with the merchant secret configured
InitConfigured == Init /\ merchantSecret = ProcessorSecret

Spec == InitConfigured /\ [][Next]_vars

AllIdle == \A q \in Procs : pc[q] = "idle"

\* a step of a request to one of the routes that only read or relay
StepOther(p) ==
  \/ CheckOrderFind(p)
  \/ CheckOrderFindFail(p)
  \/ \E id \in OrderIds : PayPalCreate(p, id)
  \/ PayPalCreateFail(p)
  \/ \E id \in SessionIds : StripeCreate(p, id)
  \/ StripeCreateFail(p)

\* each request finishes before the next one arrives
NextSeq ==
  \E p \in Procs :
    \/ AllIdle /\ \E b \in NotifyBodies : NotifyStart(p, b)
    \/ AllIdle /\ \E b \in CaptureBodies : CaptureStart(p, b)
    \/ AllIdle /\ CsrfToken(p)
    \/ AllIdle /\ \E t \in TripNames : CheckOrderStart(p, t)
    \/ AllIdle /\ \E b \in InitiateBodies : Initiate(p, b)
    \/ AllIdle /\ \E b \in CheckoutBodies : PayPalCreateStart(p, b)
    \/ AllIdle /\ \E b \in CheckoutBodies : StripeCreateStart(p, b)
    \/ Step(p, OrderResponses, AuthResponses)
    \/ StepOther(p)

SpecSeq == Init /\ [][NextSeq]_vars

\* a PayPal payment for the trip Ella, captured and stored before the
\* behaviour begins
EarlierPayment ==
  [rid |-> 0, created_at |-> 0, paymentType |-> "PayPal", merchant_id |-> undefined,
   order_id |-> "o0", payment_id |-> "o0", amount |-> Number(1000), currency |-> "USD",
   status |-> "COMPLETED", md5sig |-> undefined,
   customer |-> Obj([x \in CustomerFields |->
                       CASE x = "first_name" -> "Ann" [] x = "email" -> "a@x.lk"
                         [] x = "tripName" -> "Ella" [] OTHER -> undefined]),
   named |-> "Ella"]

\* the server has been running: the ledger holds an earlier payment
InitStored ==
  /\ ledger = <<EarlierPayment>>
  /\ merchantSecret = ProcessorSecret
  /\ nreq = 0
  /\ pc = [p \in Procs |-> "idle"]
  /\ req = [p \in Procs |-> NoReq]
  /\ loc = [p \in Procs |-> NoLoc]
  /\ resp = [p \in Procs |-> NoResp]
  /\ ghost = [p \in Procs |-> NoGhost]

SpecStored == InitStored /\ [][NextSeq]_vars

(* ------------------- the processor re-delivers ------------------------- *)

\* the notifications the processor sends for a payment: complete, signed by
\* it, of status code 2, with an amount that is a number
RetryBodies ==
  {Signed(BaseBody("o1")),
   Signed([BaseBody("o2") EXCEPT !.status_code = Num(2), !.custom_1 = CustomBroken])}

\* the number of the next delivery; deliveries beyond MaxRequests share the
\* last number
NextDelivery == IF nreq < MaxRequests THEN nreq + 1 ELSE nreq

\* no delivery for the order of b is still unanswered or awaiting re-delivery
OrderSettled(p, b) ==
  \A q \in Procs \ {p} :
    IF pc[q] = "idle" THEN TRUE
    ELSE \/ req[q].body.order_id # b.order_id
         \/ pc[q] = "done" /\ resp[q].code = 200

\* the processor delivers the notification of a payment
Deliver(p, b) ==
  /\ pc[p] = "idle"
  /\ OrderSettled(p, b)
  /\ nreq' = NextDelivery
  /\ NotifyHandle(p, b, NextDelivery)

\* the processor received a non-2xx answer and delivers the notification again
Redeliver(p) ==
  /\ pc[p] = "done"
  /\ req[p].route = "notify"
  /\ resp[p].code \notin 200..299
  /\ nreq' = NextDelivery
  /\ NotifyHandle(p, req[p].body, NextDelivery)

NextRetry ==
  \E p \in Procs :
    \/ \E b \in RetryBodies : Deliver(p, b)
    \/ Redeliver(p)
    \/ NotifyFind(p)
    \/ NotifyFindFail(p)
    \/ NotifySave(p)
    \/ NotifySaveFail(p)

\* every awaited ledger operation settles, the processor re-delivers, and a
\* ledger operation tried again and again eventually succeeds
RetryFairness ==
  \A p \in Procs :
    /\ WF_vars(Redeliver(p))
    /\ WF_vars(NotifyFind(p) \/ NotifyFindFail(p))
    /\ WF_vars(NotifySave(p) \/ NotifySaveFail(p))
    /\ SF_vars(NotifyFind(p))
    /\ SF_vars(NotifySave(p))

SpecRetry == InitConfigured /\ [][NextRetry]_vars /\ RetryFairness

(* --------------- the browser: onPayPalApprove (RightCard.jsx) ----------- *)

CaptureFailedMessage == "Failed to capture PayPal payment. Please try again."

\* the state of the RightCard component and where the browser is
FrontLocals(isLoading, showPayPal, error, toast, navigated) ==
  [status |-> "", isLoading |-> isLoading, showPayPal |-> showPayPal, error |-> error,
   toast |-> toast, navigated |-> navigated]

\* the customer approved order o in the PayPal window: the buttons are shown
\* and createPayPalOrder has set isLoading; onPayPalApprove awaits
\* actions.order.capture() (line 392)
ApproveStart(p, o) ==
  /\ pc[p] = "idle"
  /\ \A q \in Procs : req[q].route = "approve" => req[q].orderID # o
  /\ req' = [req EXCEPT ![p] = [route |-> "approve", rid |-> 0, orderID |-> o]]
  /\ loc' = [loc EXCEPT ![p] = FrontLocals(TRUE, TRUE, "", "", FALSE)]
  /\ pc' = [pc EXCEPT ![p] = "fcapture"]
  /\ ghost' = [ghost EXCEPT ![p] = NoGhost]
  /\ UNCHANGED <<ledger, merchantSecret, nreq, resp>>

\* the catch block of lines 400-406
ApproveCatch(p) ==
  /\ loc' = [loc EXCEPT ![p] =
               FrontLocals(FALSE, FALSE, CaptureFailedMessage, "error", loc[p].navigated)]
  /\ pc' = [pc EXCEPT ![p] = "done"]
  /\ UNCHANGED <<ledger, merchantSecret, nreq, req, resp, ghost>>

\* mutant: the success page opened as soon as the processor has captured
ApproveCapturedNavigating(p) ==
  /\ pc[p] = "fcapture"
  /\ loc' = [loc EXCEPT ![p] = FrontLocals(FALSE, FALSE, loc[p].error, "success", TRUE)]
  /\ pc' = [pc EXCEPT ![p] = "fpost"]
  /\ UNCHANGED <<ledger, merchantSecret, nreq, req, resp, ghost>>

\* lines 392-397: the processor capture resolves; isLoading and showPayPal are
\* reset and the request to the backend is issued
ApproveCaptured(p) ==
  /\ pc[p] = "fcapture"
  /\ loc' = [loc EXCEPT ![p] = FrontLocals(FALSE, FALSE, loc[p].error, loc[p].toast, FALSE)]
  /\ pc' = [pc EXCEPT ![p] = "fpost"]
  /\ UNCHANGED <<ledger, merchantSecret, nreq, req, resp, ghost>>

\* the processor capture rejects
ApproveCaptureFail(p) == pc[p] = "fcapture" /\ ApproveCatch(p)

\* the body of the request of lines 395-397
ApproveBody(o) == [orderId |-> o, tripName |-> undefined, customer |-> JsUndefined]

\* the handler instances that received the request of browser p
HandlersOf(p) ==
  {q \in Procs : req[q].route = "capture" /\ req[q].body.orderId = req[p].orderID}

\* the backend receives the request of a browser that awaits its answer
ApproveReceived(q) ==
  \E p \in Procs :
    /\ pc[p] = "fpost"
    /\ HandlersOf(p) = {}
    /\ CaptureStart(q, ApproveBody(req[p].orderID))

\* lines 398-399: the backend answered 2xx; toast.success and navigate('/success')
ApprovePosted(p) ==
  /\ pc[p] = "fpost"
  /\ \E q \in HandlersOf(p) : pc[q] = "done" /\ resp[q].code \in 200..299
  /\ loc' = [loc EXCEPT ![p] =
               FrontLocals(loc[p].isLoading, loc[p].showPayPal, loc[p].error, "success", TRUE)]
  /\ pc' = [pc EXCEPT ![p] = "done"]
  /\ UNCHANGED <<ledger, merchantSecret, nreq, req, resp, ghost>>

\* axios.post rejects: the backend answered outside 2xx
ApprovePostRejected(p) ==
  /\ pc[p] = "fpost"
  /\ \E q \in HandlersOf(p) : pc[q] = "done" /\ resp[q].code \notin 200..299
  /\ ApproveCatch(p)

\* axios.post rejects: the request or its answer was lost on the network
ApprovePostLost(p) == pc[p] = "fpost" /\ ApproveCatch(p)

\* browsers run onPayPalApprove against the capture handler of the backend
NextFront ==
  \E p \in Procs :
    \/ \E o \in OrderIds : ApproveStart(p, o)
    \/ ApproveCaptured(p)
    \/ ApproveCaptureFail(p)
    \/ ApproveReceived(p)
    \/ ApprovePosted(p)
    \/ ApprovePostRejected(p)
    \/ ApprovePostLost(p)
    \/ CaptureFind(p)
    \/ CaptureFindFail(p)
    \/ \E r \in OrderResponses : CaptureGet(p, r)
    \/ CaptureGetFail(p)
    \/ \E r \in AuthResponses : CaptureAuth(p, r)
    \/ CaptureAuthFail(p)
    \/ CaptureSave(p)
    \/ CaptureSaveFail(p)

SpecFront == InitConfigured /\ [][NextFront]_vars

(* ------------------------------- claims -------------------------------- *)

Notify(p) == req[p].route = "notify"
Capture(p) == req[p].route = "capture"
Done(p) == pc[p] = "done"

\* the documents of the ledger with this order id and payment type
Records(orderId, paymentType) ==
  {i \in 1..Len(ledger) :
     ledger[i].order_id = orderId /\ ledger[i].paymentType = paymentType}

\* the documents request rid has stored
StoredBy(rid) == {i \in 1..Len(ledger) : ledger[i].rid = rid}

\* the notification carries every required field (a status code of 0 is a
\* field that is there)
HasAllFields(b) ==
  /\ b.merchant_id # "" /\ b.order_id # "" /\ b.payment_id # ""
  /\ b.payhere_amount # "" /\ b.payhere_currency # "" /\ b.md5sig # ""
  /\ b.status_code # Str("")

\* the notification carries the signature PayHere computes for it, and the
\* server is configured with the secret PayHere signs with
CorrectlySigned(b) ==
  merchantSecret = ProcessorSecret /\ b.md5sig = ProcessorSignature(b)

\* the number a status code stands for
CodeOf(status_code) ==
  IF status_code.k = "num" THEN status_code.n ELSE StrToNum(status_code.s)

\* C1: in sequential operation, when a complete, correctly signed status-code-2
\* notification has been handled with no rejected ledger operation, it is
\* answered 200 and the ledger holds exactly one PayHere record with its
\* order_id, of status 'success' -- on the first delivery and on every replay.
C1_ExactlyOneAfterDelivery ==
  \A p \in Procs :
    (Done(p) /\ Notify(p) /\ HasAllFields(req[p].body) /\ CorrectlySigned(req[p].body)
       /\ CodeOf(req[p].body.status_code) = 2 /\ ~ghost[p].dbFailed)
    => /\ resp[p].code = 200
       /\ Cardinality(Records(req[p].body.order_id, "PayHere")) = 1
       /\ \A i \in Records(req[p].body.order_id, "PayHere") : ledger[i].status = "success"

\* a replay has been answered: the record is the one an earlier delivery stored
C1_Witness ==
  \E p \in Procs :
    /\ Done(p) /\ Notify(p) /\ CorrectlySigned(req[p].body)
    /\ resp[p].status = "already_processed"
    /\ \E i \in Records(req[p].body.order_id, "PayHere") : ledger[i].rid < req[p].rid

\* C2: the ledger never holds two 'success' records for one (order_id, 'PayHere').
C2_NoTwoSuccessRecords ==
  \A o \in OrderIds :
    Cardinality({i \in Records(o, "PayHere") : ledger[i].status = "success"}) <= 1

\* C3: a notification whose md5sig is not the signature recomputed from its
\* fields and the merchant secret is answered 400 at once, reads and writes
\* nothing, and no record of the ledger comes from it, whatever its status code.
C3_BadSignatureRejected ==
  \A p \in Procs :
    (Notify(p) /\ merchantSecret # ""
       /\ req[p].body.md5sig #
            Md5Upper(req[p].body.merchant_id \o req[p].body.order_id
                     \o req[p].body.payhere_amount \o req[p].body.payhere_currency
                     \o ToStr(req[p].body.status_code) \o Md5Upper(merchantSecret)))
    => /\ Done(p)
       /\ resp[p].code = 400
       /\ ghost[p].finds = 0 /\ ghost[p].saves = 0
       /\ StoredBy(req[p].rid) = {}

\* a complete status-code-2 notification with a wrong signature was rejected
C3_Witness ==
  \E p \in Procs :
    /\ Done(p) /\ Notify(p) /\ HasAllFields(req[p].body) /\ merchantSecret # ""
    /\ CodeOf(req[p].body.status_code) = 2
    /\ req[p].body.md5sig # ProcessorSignature(req[p].body)
    /\ resp[p].code = 400 /\ resp[p].error = "Invalid signature"

\* C4: every complete, correctly signed notification gets the status of the
\* table: 2 success, 0 pending, -1 cancelled, -2 failed, anything else unknown.
C4_MappingTotal ==
  \A p \in Procs :
    (Notify(p) /\ HasAllFields(req[p].body) /\ CorrectlySigned(req[p].body))
    => loc[p].status =
         CASE CodeOf(req[p].body.status_code) = 2 -> "success"
           [] CodeOf(req[p].body.status_code) = 0 -> "pending"
           [] CodeOf(req[p].body.status_code) = -1 -> "cancelled"
           [] CodeOf(req[p].body.status_code) = -2 -> "failed"
           [] OTHER -> "unknown"

\* custom_1 is not a usable customer object: text that does not parse, or text
\* that parses to something that is no object
Unusable(custom_1) == custom_1 \in {CustomBroken, CustomNull, CustomNumber}

\* C5: a correctly signed status-code-2 notification with unusable custom_1,
\* handled with no rejected ledger operation, is answered 200, and the record it
\* stores has the empty object as customer.
C5_EmptyCustomer ==
  \A p \in Procs :
    (Done(p) /\ Notify(p) /\ HasAllFields(req[p].body) /\ CorrectlySigned(req[p].body)
       /\ CodeOf(req[p].body.status_code) = 2 /\ Unusable(req[p].body.custom_1)
       /\ ~ghost[p].dbFailed)
    => /\ resp[p].code = 200
       /\ \A i \in StoredBy(req[p].rid) : ledger[i].customer = EmptyObject

\* C6: in sequential operation, a capture request for an orderId that an earlier
\* request has stored a PayPal record for stores nothing: the ledger holds
\* exactly one record for (orderId, 'PayPal'), and the request, unless its
\* findOne is rejected, is answered 400 'Order already processed'.
C6_CaptureOnce ==
  \A p \in Procs :
    (Capture(p) /\ \E i \in Records(req[p].body.orderId, "PayPal") : ledger[i].rid < req[p].rid)
    => /\ Cardinality(Records(req[p].body.orderId, "PayPal")) = 1
       /\ StoredBy(req[p].rid) = {}
       /\ ghost[p].saves = 0
       /\ (Done(p) /\ ~ghost[p].dbFailed)
            => (resp[p].code = 400 /\ resp[p].error = "Order already processed")

\* a later capture of a stored order was answered 400
C6_Witness ==
  \E p \in Procs :
    /\ Done(p) /\ Capture(p)
    /\ \E i \in Records(req[p].body.orderId, "PayPal") : ledger[i].rid < req[p].rid
    /\ resp[p].code = 400

\* the statuses that say a payment is complete, in either spelling
CompletedStatuses == {"success", "completed", "COMPLETED"}

\* C7: for each (orderId, paymentType) the ledger holds at most one record of a
\* completed/success status, and never two PayPal records for one orderId.
C7_AtMostOneCompleted ==
  \A o \in OrderIds :
    /\ \A t \in {"PayHere", "PayPal"} :
         Cardinality({i \in Records(o, t) : ledger[i].status \in CompletedStatuses}) <= 1
    /\ Cardinality(Records(o, "PayPal")) <= 1

\* C8: every complete, correctly signed notification handled with no rejected
\* ledger operation is answered 200 with status 'notified' or
\* 'already_processed', whatever its status code.
C8_AlwaysAcknowledged ==
  \A p \in Procs :
    (Done(p) /\ Notify(p) /\ HasAllFields(req[p].body) /\ CorrectlySigned(req[p].body)
       /\ ~ghost[p].dbFailed)
    => /\ resp[p].code = 200
       /\ resp[p].status \in {"notified", "already_processed"}

\* C9: a request one of whose ledger operations was rejected has ended with a
\* 500 response that carries the error message as details, has issued at most
\* one save, and has stored nothing.
C9_LedgerFailureIs500 ==
  \A p \in Procs :
    ghost[p].dbFailed
    => /\ Done(p)
       /\ resp[p].code = 500
       /\ resp[p].details \in {LedgerError, ValidationError}
       /\ ghost[p].saves <= 1
       /\ StoredBy(req[p].rid) = {}

\* a save was rejected, in each of the two handlers
C9_Witness ==
  \E p \in Procs :
    /\ Done(p) /\ ghost[p].dbFailed /\ ghost[p].saves = 1
    /\ resp[p].code = 500 /\ resp[p].details = LedgerError

\* the amount object, its currency code or its value is not there
LacksAmount(amountObj) ==
  ~amountObj.present \/ amountObj.currency_code = "" \/ amountObj.value = ""

\* the processor result the capture handler builds its record from, once it has
\* one: the order when it is APPROVED or COMPLETED, the authorization otherwise
Deciding(p) ==
  IF ghost[p].auths > 0 /\ loc[p].authResponse # NoResult THEN {loc[p].authResponse}
  ELSE IF ghost[p].gets > 0 /\ loc[p].orderResponse.status \in {"APPROVED", "COMPLETED"}
    THEN {loc[p].orderResponse}
  ELSE {}

\* C10: a capture request whose deciding processor result lacks amount data is
\* answered 500, issues no save and stores nothing.
C10_MissingAmountIs500 ==
  \A p \in Procs :
    (Capture(p) /\ \E r \in Deciding(p) : LacksAmount(r.amount))
    => /\ Done(p)
       /\ resp[p].code = 500
       /\ ghost[p].saves = 0
       /\ StoredBy(req[p].rid) = {}

\* an authorization without a currency code ended the request with 500
C10_Witness ==
  \E p \in Procs :
    /\ Done(p) /\ Capture(p) /\ ghost[p].auths = 1
    /\ loc[p].authResponse.amount.present /\ loc[p].authResponse.amount.currency_code = ""
    /\ resp[p].code = 500

Route(p, r) == req[p].route = r

\* the notification lacks one of merchant id, order id, amount, currency, status
\* code and signature
LacksListedField(b) ==
  \/ b.merchant_id = "" \/ b.order_id = "" \/ b.payhere_amount = ""
  \/ b.payhere_currency = "" \/ b.status_code = Str("") \/ b.md5sig = ""

\* C11: a notification that lacks one of merchant id, order id, amount,
\* currency, status code and signature is answered 400 'Missing required
\* fields' at once -- whether or not a secret is configured to compute a
\* signature with -- and has read and written nothing in the ledger.
C11_MissingFieldRejected ==
  \A p \in Procs :
    (Notify(p) /\ LacksListedField(req[p].body))
    => /\ Done(p)
       /\ resp[p].code = 400 /\ resp[p].error = "Missing required fields"
       /\ ghost[p].finds = 0 /\ ghost[p].saves = 0
       /\ StoredBy(req[p].rid) = {}

\* a notification without its signature reached a server without a secret and
\* was answered 400
C11_Witness ==
  \E p \in Procs :
    /\ Done(p) /\ Notify(p) /\ req[p].body.md5sig = "" /\ merchantSecret = ""
    /\ req[p].body.merchant_id # "" /\ req[p].body.order_id # ""
    /\ resp[p].code = 400

\* the body of a checkout-session request passes the validation of the
\* contract: the three strings are there, amount and quantity are positive
\* integers
ValidCheckout(b) ==
  /\ b.tripName \notin {undefined, ""}
  /\ b.successUrl \notin {undefined, ""}
  /\ b.cancelUrl \notin {undefined, ""}
  /\ b.amount.k = "num" /\ b.amount.n > 0
  /\ b.quantity.k = "num" /\ b.quantity.n > 0

CheckoutRoutes == {"paypalCreate", "stripeCreate"}

\* C12: a checkout-session request (PayPal or Stripe) whose body does not pass
\* the validation is answered 400 and no processor call is made for it.
C12_ValidatedBeforeProcessor ==
  \A p \in Procs :
    (req[p].route \in CheckoutRoutes /\ ~ValidCheckout(req[p].body))
    => /\ Done(p)
       /\ resp[p].code = 400
       /\ ghost[p].creates = 0

\* the routes that only read the ledger or relay to a processor
RelayRoutes == {"csrf", "check", "initiate", "paypalCreate", "stripeCreate"}

\* C13: a step of a request to /csrf-token, /check-order-status/:tripName,
\* /initiate/payhere or /create-checkout-session/* leaves the ledger as it is,
\* whatever the outcome; a step that changes the ledger is a step of a
\* notification or of a capture request.
C13_RelayRoutesLeaveLedger ==
  [][/\ \A p \in Procs :
          (pc'[p] # pc[p] /\ (req[p].route \in RelayRoutes \/ req'[p].route \in RelayRoutes))
          => ledger' = ledger
     /\ ledger' # ledger
          => \E p \in Procs : pc'[p] # pc[p] /\ req[p].route \in {"notify", "capture"}]_vars

\* with a record in the ledger, a PayPal order was created for a request
C13_Witness ==
  \E p \in Procs :
    /\ Done(p) /\ Route(p, "paypalCreate") /\ ghost[p].creates = 1
    /\ resp[p].code = 200 /\ Len(ledger) = 1

\* C14: no step changes or removes a record that is in the ledger: the ledger
\* after a step is the ledger before it, possibly with records added at the end.
C14_LedgerOnlyGrows ==
  [][/\ Len(ledger') >= Len(ledger)
     /\ \A i \in 1..Len(ledger) : ledger'[i] = ledger[i]]_vars

\* the ledger holds the records of two requests, the first of them still the
\* first
C14_Witness ==
  /\ Len(ledger) = 2
  /\ ledger[1].rid < ledger[2].rid
  /\ ledger[1].paymentType = ledger[2].paymentType

\* the statuses and the payment types of the data model
StatusEnum == {"pending", "success", "cancelled", "failed", "unknown", "approved", "completed"}
PaymentTypes == {"PayHere", "PayPal"}

\* C15: every record of the ledger has a status of the enumeration and a
\* payment type of PayHere or PayPal.
C15_StatusInEnum ==
  \A i \in 1..Len(ledger) :
    ledger[i].status \in StatusEnum /\ ledger[i].paymentType \in PaymentTypes

\* the PayPal records whose customer trip name is the given one, without its
\* markup
NamedFor(tripName) ==
  {i \in 1..Len(ledger) :
     /\ ledger[i].paymentType = "PayPal"
     /\ ledger[i].customer.k = "obj"
     /\ ledger[i].customer.f["tripName"] = StripTags(tripName)}

TwoDecimals(amount) ==
  CASE amount \in {"10", "10.00"} -> "10.00" [] amount = "25.99" -> "25.99" [] OTHER -> "NaN"

\* the hash of the PayHere checkout form for the fields of body b: the digest of
\* merchant id, order id, amount, currency and the digest of the secret
FormHash(b) ==
  Md5Upper(StripTags(b.merchant_id) \o StripTags(b.order_id) \o TwoDecimals(b.amount)
           \o StripTags(b.currency) \o Md5Upper(merchantSecret))

\* the notification carries as its signature the hash /initiate/payhere
\* returns for its merchant id, order id, amount and currency
CarriesFormHash(b) ==
  /\ merchantSecret = ProcessorSecret
  /\ b.md5sig = FormHash([merchant_id |-> b.merchant_id, order_id |-> b.order_id,
                           amount |-> b.payhere_amount, currency |-> b.payhere_currency])

\* C17 as stated: a complete notification that carries the hash of
\* /initiate/payhere as its signature passes the signature check of the
\* notification handler.
C17_HashAccepted ==
  \A p \in Procs :
    (Done(p) /\ Notify(p) /\ HasAllFields(req[p].body) /\ CarriesFormHash(req[p].body))
    => resp[p].error # "Invalid signature"

\* C17 as amended: the hash /initiate/payhere returns is the hash of the
\* checkout form (merchant id, order id, two-decimal amount, currency, hashed
\* secret; no status code), and a complete notification that carries it as
\* its signature is never accepted: it is answered 400, reading and writing
\* nothing, because the notification checksum also covers the status code.
C17_HashIsNotTheChecksum ==
  \A p \in Procs :
    /\ (Done(p) /\ Route(p, "initiate") /\ resp[p].code = 200)
         => resp[p].hash = FormHash(req[p].body)
    /\ (Notify(p) /\ HasAllFields(req[p].body) /\ CarriesFormHash(req[p].body))
         => /\ Done(p)
            /\ resp[p].code = 400
            /\ ghost[p].finds = 0 /\ ghost[p].saves = 0
            /\ StoredBy(req[p].rid) = {}

\* a status-code-2 notification carrying the form hash was rejected
C17_Witness ==
  \E p \in Procs :
    /\ Done(p) /\ Notify(p) /\ HasAllFields(req[p].body) /\ CarriesFormHash(req[p].body)
    /\ CodeOf(req[p].body.status_code) = 2
    /\ resp[p].code = 400 /\ resp[p].error = "Invalid signature"

\* the body of /initiate/payhere lacks one of its ten required fields
LacksInitiateField(b) == \E name \in InitiateFieldNames : b[name] = ""

\* C18: /initiate/payhere answers 400 with success false when a required field
\* is absent, whether or not the secret is configured; else 500 with success
\* false when the secret is not configured; else 200 with success true,
\* status 'initiated', a hash and custom_1.
C18_InitiateOutcomes ==
  \A p \in Procs :
    Route(p, "initiate")
    => /\ Done(p)
       /\ ~resp[p].success <=> (resp[p].code # 200)
       /\ IF LacksInitiateField(req[p].body) THEN resp[p].code = 400
          ELSE IF merchantSecret = "" THEN resp[p].code = 500
          ELSE /\ resp[p].code = 200 /\ resp[p].status = "initiated"
               /\ resp[p].hash # "" /\ resp[p].custom_1 # ""

\* a body without its email reached a server without a secret: 400, not 500
C18_Witness ==
  \E p \in Procs :
    /\ Done(p) /\ Route(p, "initiate") /\ req[p].body.email = "" /\ merchantSecret = ""
    /\ resp[p].code = 400 /\ ~resp[p].success

\* n, 0 <= n < 100, in two digits
TwoDigits(n) == IF n < 10 THEN "0" \o ToString(n) ELSE ToString(n)

\* C19: for a positive integer amount in cents, the order request of
\* /create-checkout-session/paypal carries currency USD and the value
\* amount / 100 with exactly two decimals; 2599 gives 25.99.
C19_CentsToDecimal ==
  \A p \in Procs :
    (Route(p, "paypalCreate") /\ req[p].body.amount.k = "num" /\ req[p].body.amount.n > 0)
    => /\ loc[p].currency_code = "USD"
       /\ loc[p].value = ToString(req[p].body.amount.n \div 100) \o "."
                          \o TwoDigits(req[p].body.amount.n % 100)
       /\ req[p].body.amount.n = 2599 => loc[p].value = "25.99"

\* an order of 5 cents was sent to the processor as 0.05
C19_Witness ==
  \E p \in Procs :
    /\ Route(p, "paypalCreate") /\ ghost[p].creates = 1
    /\ req[p].body.amount = Num(5) /\ loc[p].value = "0.05"

\* C20: a complete, correctly signed status-code-2 notification for an order_id
\* that has a PayHere record of an earlier request stores nothing and issues no
\* save, whatever its payment_id, amount and custom_1; unless its findOne is
\* rejected it is answered 200 'already_processed'; the one record of the order
\* is still the earlier request's.
C20_ReplayWritesNothing ==
  \A p \in Procs :
    (Notify(p) /\ HasAllFields(req[p].body) /\ CorrectlySigned(req[p].body)
       /\ CodeOf(req[p].body.status_code) = 2
       /\ \E i \in Records(req[p].body.order_id, "PayHere") : ledger[i].rid < req[p].rid)
    => /\ StoredBy(req[p].rid) = {}
       /\ ghost[p].saves = 0
       /\ \A i \in Records(req[p].body.order_id, "PayHere") : ledger[i].rid < req[p].rid
       /\ Cardinality(Records(req[p].body.order_id, "PayHere")) = 1
       /\ (Done(p) /\ ~ghost[p].dbFailed)
            => (resp[p].code = 200 /\ resp[p].status = "already_processed")

\* a replay with another payment_id and another amount was answered
\* already_processed; the record has the payment_id and amount of the first
C20_Witness ==
  \E p \in Procs :
    /\ Done(p) /\ Notify(p) /\ resp[p].status = "already_processed"
    /\ \E i \in Records(req[p].body.order_id, "PayHere") :
         /\ ledger[i].payment_id # req[p].body.payment_id
         /\ ledger[i].amount = Number(1000)
         /\ req[p].body.payhere_amount = "25.99"

\* C21: a complete, correctly signed notification whose status code is not 2
\* reads nothing and stores nothing; and every PayHere record of the ledger has
\* status 'success'.
C21_OnlySuccessStored ==
  /\ \A p \in Procs :
       (Notify(p) /\ HasAllFields(req[p].body) /\ CorrectlySigned(req[p].body)
          /\ CodeOf(req[p].body.status_code) # 2)
       => /\ ghost[p].finds = 0 /\ ghost[p].saves = 0
          /\ StoredBy(req[p].rid) = {}
  /\ \A i \in 1..Len(ledger) :
       ledger[i].paymentType = "PayHere" => ledger[i].status = "success"

\* a cancelled payment was acknowledged while the ledger held the record of a
\* paid one
C21_Witness ==
  \E p \in Procs :
    /\ Done(p) /\ Notify(p) /\ CorrectlySigned(req[p].body)
    /\ CodeOf(req[p].body.status_code) = 0 - 1
    /\ resp[p].code = 200 /\ resp[p].status = "notified"
    /\ \E i \in 1..Len(ledger) : ledger[i].paymentType = "PayHere"

\* the order the processor reported is APPROVED or COMPLETED
ReportedPaid(p) == loc[p].orderResponse.status \in {"APPROVED", "COMPLETED"}

\* C23: a capture request makes the authorize call only after an order query
\* that reported a status other than APPROVED and COMPLETED; a request
\* answered 200 has stored exactly one record, with the status of the order
\* and no authorize call when the order was APPROVED or COMPLETED, and with
\* the status of the authorization otherwise.
C23_AuthorizeOnlyWhenUnpaid ==
  \A p \in Procs :
    Capture(p)
    => /\ ghost[p].auths <= 1
       /\ ghost[p].auths = 1 => (ghost[p].gets = 1 /\ ~ReportedPaid(p))
       /\ (Done(p) /\ resp[p].code = 200)
            => /\ Cardinality(StoredBy(req[p].rid)) = 1
               /\ \A i \in StoredBy(req[p].rid) :
                    IF ReportedPaid(p)
                      THEN ledger[i].status = loc[p].orderResponse.status /\ ghost[p].auths = 0
                      ELSE ledger[i].status = loc[p].authResponse.status /\ ghost[p].auths = 1

\* a COMPLETED order was stored without an authorization
C23_Witness ==
  \E p \in Procs :
    /\ Done(p) /\ Capture(p) /\ resp[p].code = 200
    /\ loc[p].orderResponse.status = "COMPLETED" /\ ghost[p].auths = 0
    /\ \E i \in StoredBy(req[p].rid) : ledger[i].status = "COMPLETED"

\* C24: a capture request makes no processor call before its existence check
\* has resolved; for an orderId that has a PayPal record of an earlier request
\* it makes no order query and no authorize call, and unless its findOne is
\* rejected it is answered 400.
C24_ExistenceCheckFirst ==
  \A p \in Procs :
    Capture(p)
    => /\ (ghost[p].gets > 0 \/ ghost[p].auths > 0) => ghost[p].finds = 1
       /\ (\E i \in Records(req[p].body.orderId, "PayPal") : ledger[i].rid < req[p].rid)
            => /\ ghost[p].gets = 0 /\ ghost[p].auths = 0
               /\ (Done(p) /\ ~ghost[p].dbFailed) => resp[p].code = 400

\* the existence check of a second capture has found the record and no
\* processor call was made
C24_Witness ==
  \E p \in Procs :
    /\ Done(p) /\ Capture(p) /\ ghost[p].finds = 1 /\ ~ghost[p].dbFailed
    /\ ghost[p].gets = 0 /\ ghost[p].auths = 0
    /\ Records(req[p].body.orderId, "PayPal") # {}
    /\ resp[p].error = "Order already processed"

\* C26: a capture is answered 'Order already processed' only when the ledger
\* holds a PayPal record of its orderId, and a notification is answered
\* 'already_processed' only when the ledger holds a PayHere record of its
\* order_id: a record of the other provider with the same id has no effect.
C26_ProvidersIndependent ==
  \A p \in Procs :
    /\ (Capture(p) /\ Done(p) /\ resp[p].error = "Order already processed")
         => Records(req[p].body.orderId, "PayPal") # {}
    /\ (Notify(p) /\ Done(p) /\ resp[p].status = "already_processed")
         => Records(req[p].body.order_id, "PayHere") # {}

\* a capture was stored for an order id that has a PayHere record
C26_Witness ==
  \E p \in Procs :
    /\ Done(p) /\ Capture(p) /\ resp[p].code = 200
    /\ Records(req[p].body.orderId, "PayHere") # {}
    /\ Cardinality(Records(req[p].body.orderId, "PayPal")) = 1

\* the signature of the notification is the digest of its fields under the
\* configured secret
SignatureMatches(b) ==
  b.md5sig = Md5Upper(b.merchant_id \o b.order_id \o b.payhere_amount \o b.payhere_currency
                      \o ToStr(b.status_code) \o Md5Upper(merchantSecret))

\* C29: a notification with all required fields that reaches a server without
\* a merchant secret is answered 500 and reads and writes nothing; and a
\* notification that has read or written the ledger has all required fields
\* and a matching signature under a configured secret.
C29_ChecksInOrder ==
  \A p \in Procs :
    Notify(p)
    => /\ (HasAllFields(req[p].body) /\ merchantSecret = "")
            => /\ Done(p) /\ resp[p].code = 500
               /\ ghost[p].finds = 0 /\ ghost[p].saves = 0
               /\ StoredBy(req[p].rid) = {}
       /\ (ghost[p].finds > 0 \/ ghost[p].saves > 0 \/ StoredBy(req[p].rid) # {})
            => /\ HasAllFields(req[p].body)
               /\ merchantSecret # ""
               /\ SignatureMatches(req[p].body)

\* the notification was turned away by one of the checks before the ledger
Rejected(p) == Done(p) /\ ghost[p].finds = 0 /\ resp[p].code # 200

\* the notification that agrees with b on merchant_id, order_id,
\* payhere_amount, payhere_currency, status_code and md5sig and carries a
\* fixed payment_id and custom_1
SameSigned(b) == [b EXCEPT !.payment_id = "p1", !.custom_1 = CustomGood]

\* the checks of the handler pass notification b
PassesChecks(b) ==
  ~Missing(b) /\ merchantSecret # "" /\ ~SignatureMismatch(b, merchantSecret)

FormCustomer(ib) ==
  [x \in CustomerFields |->
     LET v == IF x = "tripName" THEN ib.items ELSE ib[x]
     IN IF v = undefined THEN undefined ELSE StripTags(v)]

\* the custom_1 text of the checkout form of ib, as the browser received it
FormCustom(ib) ==
  "{" \o "\"first_name\":\"" \o StripTags(ib.first_name) \o "\""
  \o (IF ib.last_name = undefined THEN ""
      ELSE ",\"last_name\":\"" \o StripTags(ib.last_name) \o "\"")
  \o ",\"email\":\"" \o StripTags(ib.email) \o "\""
  \o (IF ib.phone = undefined THEN ""
      ELSE ",\"phone\":\"" \o StripTags(ib.phone) \o "\"")
  \o (IF ib.delivery_city = undefined THEN ""
      ELSE ",\"delivery_city\":\"" \o StripTags(ib.delivery_city) \o "\"")
  \o ",\"tripName\":\"" \o StripTags(ib.items) \o "\"" \o "}"

\* initiate answers a complete body with the custom_1 text of its checkout form
FormReturned ==
  \A p \in Procs : \A ib \in CompleteInitiateBodies :
    (Done(p) /\ Route(p, "initiate") /\ req[p].body = ib /\ resp[p].code = 200)
    => resp[p].custom_1 = FormCustom(ib)

\* the record stored for a notification carrying that text holds the values
\* of the form
FormStored ==
  \A p \in Procs : \A ib \in CompleteInitiateBodies :
    (Done(p) /\ Notify(p) /\ resp[p].code = 200 /\ resp[p].status = "notified"
     /\ CodeOf(req[p].body.status_code) = 2
     /\ CorrectlySigned(req[p].body) /\ req[p].body.custom_1 = FormCustom(ib))
    => /\ StoredBy(req[p].rid) # {}
       /\ \A i \in StoredBy(req[p].rid) :
            /\ ledger[i].customer.k = "obj"
            /\ \A x \in CustomerFields : ledger[i].customer.f[x] = FormCustomer(ib)[x]

CapturedFor(tripName) ==
  {i \in 1..Len(ledger) :
     /\ ledger[i].paymentType = "PayPal"
     /\ ledger[i].named # undefined
     /\ StripTags(ledger[i].named) = StripTags(tripName)}

\* C28: an answered GET /check-order-status/T whose query was not rejected
\* carries the status of the record a capture request naming trip T has
\* stored (of the last one, if there are several), whether or not that
\* request carried a customer object.
C28_CapturedTripFound ==
  \A p \in Procs :
    (Done(p) /\ Route(p, "check") /\ ~ghost[p].dbFailed)
    => \A i \in CapturedFor(req[p].tripName) :
         (\A j \in CapturedFor(req[p].tripName) : j <= i)
         => resp[p].status = ledger[i].status

\* the 'success' records of the PayHere order
SuccessRecords(orderId) ==
  {i \in 1..Len(ledger) :
     /\ ledger[i].paymentType = "PayHere" /\ ledger[i].order_id = orderId
     /\ ledger[i].status = "success"}

\* the notification of p has been answered 200 and its order has exactly one
\* 'success' record
Settled(p) ==
  /\ Done(p) /\ Notify(p) /\ resp[p].code = 200
  /\ Cardinality(SuccessRecords(req[p].body.order_id)) = 1

\* a step that answers a notification with 500 leaves the ledger as it was
NoPartialRecord ==
  \A p \in Procs :
    (Notify(p) /\ pc[p] # "done" /\ pc'[p] = "done" /\ resp'[p].code = 500)
    => ledger' = ledger

Approve(p) == req[p].route = "approve"

\* the backend has answered a capture request for the order of browser p
\* with 200
BackendCaptured(p) ==
  \E q \in Procs :
    /\ Capture(q) /\ Done(q) /\ req[q].body.orderId = req[p].orderID
    /\ resp[q].code = 200

====
